---- MODULE Spec2Model ----
(***************************************************************************)
(* The Splunk HEC receiver (receiver/splunkhecreceiver/receiver.go): the   *)
(* lifecycle of its HTTP server and the request handler handleReq, with    *)
(* the streaming decode loop, the batch handed to the next consumer, the   *)
(* HTTP response and the request's span.                                   *)
(***************************************************************************)
EXTENDS Integers, Sequences, FiniteSets, TLC

\* ------------------------------------------------------------------ bounds
\* The longest request payload, counted in top-level elements.
MaxRecords == 2
\* The number of Start calls the host makes.
MaxStarts == 1

\* ------------------------------------------------------- program constants
StatusOK == 200
StatusAccepted == 202
StatusBadRequest == 400
StatusUnsupportedMediaType == 415
StatusInternalServerError == 500

responseOK == "OK"
responseInvalidMethod == "Only \"POST\" method is supported"
responseInvalidContentType == "\"Content-Type\" must be \"application/json\""
responseInvalidEncoding == "\"Content-Encoding\" must be \"gzip\" or empty"
responseErrGzipReader == "Error on gzip body"
responseErrUnmarshalBody == "Failed to unmarshal message body"
responseErrNextConsumer == "Internal Server Error"
responseErrUnsupportedMetricEvent == "Unsupported metric event"

jsonContentType == "application/json"
gzipEncoding == "gzip"
MethodPost == "POST"

\* json.Marshal of a string: the text between double quotes.
initJSONResponse(s) == <<"\"", s, "\"">>

okRespBody == initJSONResponse(responseOK)
invalidMethodRespBody == initJSONResponse(responseInvalidMethod)
invalidContentRespBody == initJSONResponse(responseInvalidContentType)
invalidEncodingRespBody == initJSONResponse(responseInvalidEncoding)
errGzipReaderRespBody == initJSONResponse(responseErrGzipReader)
errUnmarshalBodyRespBody == initJSONResponse(responseErrUnmarshalBody)
errNextConsumerRespBody == initJSONResponse(responseErrNextConsumer)
errUnsupportedMetricEvent == initJSONResponse(responseErrUnsupportedMetricEvent)

\* The absent error (Go's nil) and the absent request.
Nil == "nil"
NoRequest == [method |-> "", contentType |-> "", encoding |-> "", token |-> "",
              chunked |-> FALSE, wire |-> <<>>]

\* ------------------------------------------------------------ the requests
\* A body is a sequence of elements. The elements of a JSON payload: two
\* different well-formed log events, a well-formed metric event, a value that
\* does not decode into an Event (a syntax error, a truncated object, a value
\* of the wrong type), white space, and a closing bracket at the top level.
LogTokens == {"logA", "logB"}
Tokens == LogTokens \cup {"metric", "bad", "ws", "close"}

\* The framing bytes of a gzip stream: its header, its trailer (CRC and
\* length) and a trailer that does not match the data.
GZH == "gzipHeader"
GZT == "gzipTrailer"
GZX == "gzipBadTrailer"

Payloads == UNION {[1..n -> Tokens] : n \in 0..MaxRecords}

\* What a client puts on the wire for a payload: the payload as it is, its
\* gzip stream, a gzip stream with a corrupt trailer, or a gzip stream cut
\* before its trailer.
Gzip(payload) == <<GZH>> \o payload \o <<GZT>>
Wires ==
    Payloads
        \cup {Gzip(p) : p \in Payloads}
        \cup {<<GZH>> \o p \o <<GZX>> : p \in Payloads}
        \cup {<<GZH>> \o p : p \in Payloads}

Methods == {MethodPost, "GET"}
ContentTypes == {jsonContentType, "text/plain"}
Encodings == {"", gzipEncoding, "deflate"}
AccessTokens == {"", "tok", "tok2"}

Requests ==
    [method : Methods, contentType : ContentTypes, encoding : Encodings,
     token : AccessTokens, chunked : BOOLEAN, wire : Wires]

\* req.ContentLength: the declared length, -1 when the length is unknown
\* (chunked transfer encoding).
ContentLength(r) == IF r.chunked THEN -1 ELSE Len(r.wire)

HandlerIds == {1, 2}
Serial == {1}

VARIABLES
    passthrough,       \* r.config.AccessTokenPassthrough
    mu,                \* the callers between Lock and Unlock of the receiver's mutex
    server,            \* r.server: "created", "serving", "failed" or "closed"
    starts,            \* the number of Start calls made
    exiting,           \* Serve goroutines whose server was closed, still to return
    fatal,             \* the errors given to host.ReportFatalError
    shutdownReturned,  \* whether a Shutdown has returned since the last Start
    pc,                \* each handler's position in handleReq
    req,               \* the request each handler serves
    connOpen,          \* whether the handler's connection is open
    bodyReader,        \* bodyReader: gz (a gzip reader) and pos, the elements read
    events,            \* the events appended so far
    messagesReceived,  \* the counter of handleReq
    classified,        \* the number of msg.IsMetric() calls
    resp,              \* the http.ResponseWriter
    span,              \* the request's span
    sink,              \* the batches passed to logConsumer.ConsumeLogs
    decodeErr,         \* the result of ConsumeLogs
    obsEnd             \* the arguments of obsreport.EndMetricsReceiveOp

lifeVars == <<mu, server, starts, exiting, fatal, shutdownReturned>>
reqVars == <<pc, req, connOpen, bodyReader, events, messagesReceived, classified,
             resp, span, sink, decodeErr, obsEnd>>
recvVars == <<passthrough, lifeVars, reqVars>>

\* newValueFromRaw of the Azure Event Hub receiver: an input and what the call
\* returned.
VARIABLES
    raw,               \* the argument of the last newValueFromRaw call
    result             \* the Value and the error the call returned

valVars == <<raw, result>>

\* The websocket processor.
VARIABLES
    wsServer,          \* w.server: "nil", "serving", "failed" or "closed"
    wsServe,           \* the goroutine of Start: "none", "running" or "exited"
    wsFatal,           \* the errors the processor gave to host.ReportFatalError
    connections,       \* w.connections: request URI -> channel
    closed,            \* the channels that were closed
    rlocked,           \* the goroutines holding connLock for reading
    wpending,          \* the handlers inside connLock.Lock()
    hpc,               \* each connection handler's position in handleConn
    hkey,              \* each handler's key, conn.Request().RequestURI
    bpc,               \* each broadcast goroutine's position
    btodo,             \* the channels its range loop has still to visit
    btarget,           \* the channel it is sending on
    forwarded,         \* the number of calls of the next consumer, per Consume call
    sinkResult,        \* what the next consumer returned to the Consume call
    returned,          \* what the Consume call returned
    spc,               \* each Shutdown call's position
    stodo,             \* the channels its range loop has still to close
    panics             \* the run-time panics raised

wsVars == <<wsServer, wsServe, wsFatal, connections, closed, rlocked, wpending,
            hpc, hkey, bpc, btodo, btarget, forwarded, sinkResult, returned, spc,
            stodo, panics>>

\* The registry of newProcessor.
VARIABLES
    processors,        \* processors: config pointer -> processor
    allocated,         \* the number of wsprocessor values made
    calls              \* the newProcessor calls made: config, processor, error

regVars == <<processors, allocated, calls>>

extVars == <<valVars, wsVars, regVars>>
vars == <<passthrough, lifeVars, reqVars, extVars>>

\* ------------------------------------------------ response writer and span
NewResponse == [wroteHeader |-> FALSE, status |-> 0, bodies |-> <<>>]
WriteHeader(w, code) ==
    IF w.wroteHeader THEN w ELSE [w EXCEPT !.wroteHeader = TRUE, !.status = code]
\* Write sends the header with status 200 when none was written.
Write(w, b) ==
    LET w1 == WriteHeader(w, StatusOK) IN [w1 EXCEPT !.bodies = Append(@, b)]

\* The span StartMetricsReceiveOp puts in the context: its status code, its
\* status message, its attributes and the number of End calls.
NewSpan == [started |-> TRUE, code |-> "Unset", message |-> "",
            attributes |-> <<>>, ends |-> 0]
NoSpan == [started |-> FALSE, code |-> "Unset", message |-> "",
           attributes |-> <<>>, ends |-> 0]

\* failRequest, the response part: the status line, then the JSON body when
\* it is not empty.
failResponse(w, httpStatusCode, jsonResponse) ==
    LET w1 == WriteHeader(w, httpStatusCode)
    IN  IF Len(jsonResponse) > 0 THEN Write(w1, jsonResponse) ELSE w1

\* An accepted batch answered without WriteHeader: the status is then 200.
acceptResponse_NoHeader(w) == Write(w, okRespBody)

\* The response of an accepted batch: status 202 and the OK body.
acceptResponse(w) == Write(WriteHeader(w, StatusAccepted), okRespBody)

\* A span status that would not tell the consumer's failure apart.
traceStatusCode_Always(httpStatusCode) == "InvalidArgument"

\* failRequest, the status code of the span.
traceStatusCode(httpStatusCode) ==
    IF httpStatusCode = StatusInternalServerError
        THEN "Internal" ELSE "InvalidArgument"

\* failRequest, the span part: the two attributes, the status (its message is
\* the error's text, when there is an error) and End.
failSpan(s, httpStatusCode, jsonResponse, err) ==
    [s EXCEPT !.attributes = @ \o <<httpStatusCode, jsonResponse>>,
              !.code = traceStatusCode(httpStatusCode),
              !.message = IF err # Nil THEN err ELSE "",
              !.ends = @ + 1]

\* obsreport.EndMetricsReceiveOp, the span part: the status of the error, End.
endReceiveOpSpan(s, err) ==
    [s EXCEPT !.code = IF err = Nil THEN "OK" ELSE "Unknown",
              !.message = IF err # Nil THEN err ELSE "",
              !.ends = @ + 1]

\* ------------------------------------------------------ request validation
Proceed == [reject |-> FALSE, status |-> 0, body |-> <<>>]
Reject(status, body) == [reject |-> TRUE, status |-> status, body |-> body]

\* Header checks that would leave out the Content-Type.
validateHeaders_NoContentType(r) ==
    IF r.method # MethodPost
        THEN Reject(StatusBadRequest, invalidMethodRespBody)
    ELSE IF r.encoding # "" /\ r.encoding # gzipEncoding
        THEN Reject(StatusUnsupportedMediaType, invalidEncodingRespBody)
    ELSE Proceed

\* Header checks that would look at the Content-Type before the method.
validateHeaders_ContentTypeFirst(r) ==
    IF r.contentType # jsonContentType
        THEN Reject(StatusUnsupportedMediaType, invalidContentRespBody)
    ELSE IF r.method # MethodPost
        THEN Reject(StatusBadRequest, invalidMethodRespBody)
    ELSE IF r.encoding # "" /\ r.encoding # gzipEncoding
        THEN Reject(StatusUnsupportedMediaType, invalidEncodingRespBody)
    ELSE Proceed

\* The three header checks of handleReq, in the order of the code.
validateHeaders(r) ==
    IF r.method # MethodPost
        THEN Reject(StatusBadRequest, invalidMethodRespBody)
    ELSE IF r.contentType # jsonContentType
        THEN Reject(StatusUnsupportedMediaType, invalidContentRespBody)
    ELSE IF r.encoding # "" /\ r.encoding # gzipEncoding
        THEN Reject(StatusUnsupportedMediaType, invalidEncodingRespBody)
    ELSE Proceed

\* ---------------------------------------------------------- the body reader
\* A gzip reader that would read its header at the first Read.
gzipNewReader_Lazy(wire, readOK) == [err |-> Nil, pos |-> 0]

\* A gzip reader whose header takes the first element of the payload with it.
gzipNewReader_EatsFirst(wire, readOK) ==
    IF ~readOK THEN [err |-> "read error", pos |-> 0]
    ELSE IF Len(wire) = 0 THEN [err |-> "EOF", pos |-> 0]
    ELSE IF wire[1] # GZH THEN [err |-> "gzip: invalid header", pos |-> 1]
    ELSE [err |-> Nil, pos |-> 2]

\* gzip.NewReader reads the header of the stream: it fails at the end of the
\* input, on a read error and on bytes that are no gzip header.
gzipNewReader(wire, readOK) ==
    IF ~readOK THEN [err |-> "read error", pos |-> 0]
    ELSE IF Len(wire) = 0 THEN [err |-> "EOF", pos |-> 0]
    ELSE IF wire[1] # GZH THEN [err |-> "gzip: invalid header", pos |-> 1]
    ELSE [err |-> Nil, pos |-> 1]

\* One element read from bodyReader after pos elements: data, the end of the
\* stream or a read error.
readAt(wire, gz, pos) ==
    IF pos + 1 > Len(wire)
        THEN [kind |-> IF gz THEN "err" ELSE "eof", tok |-> ""]
    ELSE IF gz /\ wire[pos + 1] = GZT THEN [kind |-> "eof", tok |-> ""]
    ELSE IF gz /\ wire[pos + 1] \in {GZH, GZX} THEN [kind |-> "err", tok |-> ""]
    ELSE [kind |-> "data", tok |-> wire[pos + 1]]

\* Decoder.peek: skips white space up to the next element.
RECURSIVE peek(_, _, _)
peek(wire, gz, pos) ==
    LET n == readAt(wire, gz, pos)
    IN  IF n.kind = "data" /\ n.tok = "ws"
            THEN peek(wire, gz, pos + 1)
            ELSE [pos |-> pos, next |-> n]

\* Decoder.More: err == nil && c != ']' && c != '}'.
More(pk) == pk.next.kind = "data" /\ pk.next.tok # "close"

\* ------------------------------------------------------------ event records
StringValue(s) == [kind |-> "string", v |-> s]
SupportedKinds ==
    {"null", "string", "int", "float", "bool", "bytes", "map", "slice"}
MetricFieldNames == {"metric_name:cpu"}

EventOf(tok) ==
    CASE tok = "logA" -> [event |-> StringValue("a"), fields |-> {}]
      [] tok = "logB" -> [event |-> StringValue("b"),
                          fields |-> {<<"k", StringValue("v")>>}]
      [] tok = "metric" -> [event |-> StringValue("metric"),
                            fields |-> {<<"metric_name:cpu", StringValue("1")>>}]

\* Decoder.Decode into a splunk.Event.
Decode(tok) ==
    IF tok \in LogTokens \cup {"metric"}
        THEN [err |-> Nil, msg |-> EventOf(tok)]
        ELSE [err |-> "invalid character", msg |-> [event |-> StringValue(""), fields |-> {}]]

\* splunk.Event.IsMetric: the event carries metric-specific fields.
IsMetric(msg) == \E f \in msg.fields : f[1] \in MetricFieldNames

\* A loop that would not look at msg.IsMetric().
loopTurn_NoMetricCheck(pk) ==
    IF ~More(pk) THEN "exit"
    ELSE IF Decode(pk.next.tok).err # Nil THEN "unmarshal"
    ELSE "append"

\* One turn of the loop of handleReq on what the decoder peeks: the loop ends,
\* the request fails on a value that does not decode, it fails on a metric
\* event, or the event is appended.
loopTurn(pk) ==
    IF ~More(pk) THEN "exit"
    ELSE IF Decode(pk.next.tok).err # Nil THEN "unmarshal"
    ELSE IF IsMetric(Decode(pk.next.tok).msg) THEN "metric"
    ELSE "append"

\* SplunkHecToLogData: one log record per event, in order; the conversion of an
\* event value outside the supported kinds is an error.
SplunkHecToLogData(evs) ==
    IF \E i \in 1..Len(evs) : evs[i].event.kind \notin SupportedKinds
        THEN [err |-> "cannot convert field value to attribute", logs |-> <<>>]
        ELSE [err |-> Nil,
              logs |-> [i \in 1..Len(evs) |->
                          [body |-> evs[i].event, attributes |-> evs[i].fields]]]

SplunkHecTokenLabel == "com.splunk.hec.access_token"

\* A resource given the token attribute whatever the configuration says.
resourceOf_IgnoreConfig(pass, accessToken) ==
    IF accessToken # ""
        THEN [attributes |-> {<<SplunkHecTokenLabel, accessToken>>}]
        ELSE [attributes |-> {}]

\* The resource of the batch: the token attribute under passthrough.
resourceOf(pass, accessToken) ==
    IF pass /\ accessToken # ""
        THEN [attributes |-> {<<SplunkHecTokenLabel, accessToken>>}]
        ELSE [attributes |-> {}]

\* A batch whose scopes were resized to two, the log slice moved to the second.
newLogs_TwoScopes(pass, accessToken, logSlice) ==
    <<[resource |-> resourceOf(pass, accessToken),
       ills |-> <<[logs |-> <<>>], [logs |-> logSlice]>>]>>

\* pdata.NewLogs with one ResourceLogs holding one InstrumentationLibraryLogs
\* that holds the log slice.
newLogs(pass, accessToken, logSlice) ==
    <<[resource |-> resourceOf(pass, accessToken),
       ills |-> <<[logs |-> logSlice]>>]>>

\* ------------------------------------------------------- newValueFromRaw
MaxElems == 2

\* A dynamic value: its Go type and its content.
Raw(t, x) == <<t, x>>
TypeOf(iv) == iv[1]
ContentOf(iv) == iv[2]
NoRaw == Raw("none", "")

SignedTypes == {"int", "int8", "int16", "int32", "int64"}
UnsignedTypes == {"uint", "uint8", "uint16", "uint32", "uint64"}
FloatTypes == {"float32", "float64"}
ScalarTypes ==
    {"nil", "string", "bool", "[]byte"} \cup SignedTypes \cup UnsignedTypes
        \cup FloatTypes
SliceType == "[]interface{}"
MapType == "map[string]interface{}"

\* The values of the test table, and negative numbers.
ScalarRaws ==
    {Raw("nil", "nil"), Raw("string", "foo"), Raw("int", 1234), Raw("int8", 12),
     Raw("int16", 123), Raw("int32", 1234), Raw("int64", 1234),
     Raw("uint", 1234), Raw("uint8", 12), Raw("uint16", 123),
     Raw("uint32", 1234), Raw("uint64", 1234),
     Raw("float32", "1233.4"), Raw("float64", "1233.4"),
     Raw("bool", TRUE), Raw("[]byte", <<102, 111, 111>>)}
        \cup {Raw("int", -1234), Raw("int8", -12), Raw("int64", -1), Raw("bool", FALSE),
              Raw("string", ""), Raw("[]byte", <<>>)}

\* Values of types newValueFromRaw does not take: the *Config of the test, a
\* channel.
UnsupportedRaws == {Raw("*Config", "&Config{}"), Raw("chan int", "ch")}

\* What the sequences and the maps of the inputs hold.
Elems ==
    {Raw("string", "bar"), Raw("int8", 12), Raw("nil", "nil"),
     Raw("*Config", "&Config{}"),
     Raw(SliceType, <<Raw("string", "foo")>>),
     Raw(SliceType, <<Raw("*Config", "&Config{}")>>)}
MapKeys == {"foo", "baz"}

SliceRaws ==
    {Raw(SliceType, s) : s \in UNION {[1..n -> Elems] : n \in 0..MaxElems}}
MapRaws ==
    {Raw(MapType, f) : f \in UNION {[K -> Elems] : K \in SUBSET MapKeys}}

RawInputs == ScalarRaws \cup UnsupportedRaws \cup SliceRaws \cup MapRaws

\* pcommon.NewValueEmpty().
\* A Value: its case of the union and its content.
Val(k, x) == <<k, x>>
KindOf(val) == val[1]
EmptyValue == Val("Empty", "nil")
NoResult == [err |-> "none", v |-> EmptyValue]

\* The Value of a value of a scalar type: its case of the union, with the
\* width and the sign of a number.
scalarValue(iv) ==
    IF TypeOf(iv) = "nil" THEN EmptyValue
    ELSE IF TypeOf(iv) = "string" THEN Val("Str", ContentOf(iv))
    ELSE IF TypeOf(iv) = "bool" THEN Val("Bool", ContentOf(iv))
    ELSE IF TypeOf(iv) = "[]byte" THEN Val("Bytes", ContentOf(iv))
    ELSE IF TypeOf(iv) \in SignedTypes THEN Val("Int:" \o TypeOf(iv), ContentOf(iv))
    ELSE IF TypeOf(iv) \in UnsignedTypes THEN Val("Uint:" \o TypeOf(iv), ContentOf(iv))
    ELSE Val("Double:" \o TypeOf(iv), ContentOf(iv))

errUnsupportedType(iv) == "unsupported type " \o TypeOf(iv)

\* A conversion that leaves what it made so far in the Value it returns with
\* the error.
newValueFromRaw_Partial(iv) ==
    IF TypeOf(iv) \in ScalarTypes THEN [err |-> Nil, v |-> scalarValue(iv)]
    ELSE IF TypeOf(iv) = SliceType
        THEN [err |-> IF \E i \in 1..Len(ContentOf(iv)) : TypeOf(ContentOf(iv)[i]) \notin ScalarTypes
                          THEN "unsupported type" ELSE Nil,
              v |-> Val("Slice", <<>>)]
    ELSE IF TypeOf(iv) = MapType
        THEN [err |-> IF \E k \in DOMAIN ContentOf(iv) : TypeOf(ContentOf(iv)[k]) \notin ScalarTypes
                          THEN "unsupported type" ELSE Nil,
              v |-> Val("Map", <<>>)]
    ELSE [err |-> errUnsupportedType(iv), v |-> Val("Str", TypeOf(iv))]

\* newValueFromRaw: the Value of a dynamic value, or the empty Value and an
\* error when the value, or a value it contains, is of no supported type.
RECURSIVE newValueFromRaw(_)
newValueFromRaw(iv) ==
    IF TypeOf(iv) \in ScalarTypes THEN [err |-> Nil, v |-> scalarValue(iv)]
    ELSE IF TypeOf(iv) \in {SliceType, MapType}
        THEN LET parts == [k \in DOMAIN ContentOf(iv) |-> newValueFromRaw(ContentOf(iv)[k])]
                 bad == {k \in DOMAIN ContentOf(iv) : parts[k].err # Nil}
             IN  IF bad # {}
                     THEN [err |-> parts[CHOOSE k \in bad : TRUE].err, v |-> EmptyValue]
                     ELSE [err |-> Nil,
                           v |-> Val(IF TypeOf(iv) = MapType THEN "Map" ELSE "Slice",
                                    [k \in DOMAIN ContentOf(iv) |-> parts[k].v])]
    ELSE [err |-> errUnsupportedType(iv), v |-> EmptyValue]

\* No conversion was made.
InitValue ==
    /\ raw = NoRaw
    /\ result = NoResult

\* --------------------------------------------------- websocket processor
\* The websocket connections, each with the channel its handler makes; the
\* request URIs; the Consume calls, each with its broadcast goroutine; the
\* Shutdown calls.
Conns == {1, 2}
URIs == {"/a", "/b"}
Bcasts == {1, 2}
Shutters == {1, 2}
NoChan == 0
NoKey == ""
NoReturn == "none"

\* The processor newProcessor returns: no server, an empty connection map.
InitProcessor ==
    /\ wsServer = "nil"
    /\ wsServe = "none"
    /\ wsFatal = {}
    /\ connections = [u \in URIs |-> NoChan]
    /\ closed = {}
    /\ rlocked = {}
    /\ wpending = {}
    /\ hpc = [c \in Conns |-> "none"]
    /\ hkey = [c \in Conns |-> NoKey]
    /\ bpc = [b \in Bcasts |-> "idle"]
    /\ btodo = [b \in Bcasts |-> {}]
    /\ btarget = [b \in Bcasts |-> NoChan]
    /\ forwarded = [b \in Bcasts |-> 0]
    /\ sinkResult = [b \in Bcasts |-> NoReturn]
    /\ returned = [b \in Bcasts |-> NoReturn]
    /\ spc = [s \in Shutters |-> "idle"]
    /\ stodo = [s \in Shutters |-> {}]
    /\ panics = {}

\* ---------------------------------------------------------- newProcessor
MaxCalls == 4

\* The *Config pointers newProcessor is called with; no processor.
Configs == {"cfgA", "cfgB"}
NoProc == 0

\* A newProcessor that makes a processor at every call.
newProcessor_NoLookup(reg, n, config, obsOK) ==
    IF ~obsOK
        THEN [p |-> NoProc, err |-> "obsreport error", reg |-> reg, n |-> n]
        ELSE [p |-> n + 1, err |-> Nil,
              reg |-> [reg EXCEPT ![config] = n + 1], n |-> n + 1]

\* newProcessor on the registry reg with n processors made so far: the
\* processor of the registry, or the error of obsreport.NewProcessor, or a
\* new processor that is put in the registry.
newProcessor(reg, n, config, obsOK) ==
    IF reg[config] # NoProc
        THEN [p |-> reg[config], err |-> Nil, reg |-> reg, n |-> n]
    ELSE IF ~obsOK
        THEN [p |-> NoProc, err |-> "obsreport error", reg |-> reg, n |-> n]
    ELSE [p |-> n + 1, err |-> Nil,
          reg |-> [reg EXCEPT ![config] = n + 1], n |-> n + 1]

\* var processors = map[*Config]*wsprocessor{}.
InitRegistry ==
    /\ processors = [c \in Configs |-> NoProc]
    /\ allocated = 0
    /\ calls = <<>>

\* ------------------------------------------------------------------- Init
\* The receiver New returns: the server is constructed and not started, no
\* request is being handled. No newValueFromRaw call was made, and the
\* websocket processor is as newProcessor returns it; the calls of
\* newProcessor are counted from here, with an empty registry.
Init ==
    /\ passthrough \in BOOLEAN
    /\ mu = {}
    /\ server = "created"
    /\ starts = 0
    /\ exiting = 0
    /\ fatal = {}
    /\ shutdownReturned = FALSE
    /\ pc = [h \in HandlerIds |-> "idle"]
    /\ req = [h \in HandlerIds |-> NoRequest]
    /\ connOpen = [h \in HandlerIds |-> FALSE]
    /\ bodyReader = [h \in HandlerIds |-> [gz |-> FALSE, pos |-> 0]]
    /\ events = [h \in HandlerIds |-> <<>>]
    /\ messagesReceived = [h \in HandlerIds |-> 0]
    /\ classified = [h \in HandlerIds |-> 0]
    /\ resp = [h \in HandlerIds |-> NewResponse]
    /\ span = [h \in HandlerIds |-> NoSpan]
    /\ sink = [h \in HandlerIds |-> <<>>]
    /\ decodeErr = [h \in HandlerIds |-> Nil]
    /\ obsEnd = [h \in HandlerIds |-> <<>>]
    /\ InitValue
    /\ InitProcessor
    /\ InitRegistry

\* -------------------------------------------------------------- lifecycle
\* A Lock that returns whoever holds the mutex.
Lock_NoExclusion(m) == TRUE

\* sync.Mutex.Lock returns when no caller is between Lock and Unlock.
Lock(m) == m = {}

\* Start, r.Lock().
StartLock ==
    /\ Lock(mu)
    /\ starts < MaxStarts
    /\ mu' = mu \cup {"Start"}
    /\ starts' = starts + 1
    /\ UNCHANGED <<passthrough, server, exiting, fatal, shutdownReturned, reqVars>>
    /\ UNCHANGED extVars

\* Start, from ToListener to the return and the deferred Unlock: the endpoint
\* cannot be bound while a server of this receiver listens on it, and may be
\* taken by another process; on success r.server is a new server and a
\* goroutine serves it.
StartReturn ==
    /\ "Start" \in mu
    /\ \E bound \in (IF server = "serving" THEN {FALSE} ELSE BOOLEAN) :
        IF bound
            THEN /\ server' = "serving"
                 /\ shutdownReturned' = FALSE
            ELSE UNCHANGED <<server, shutdownReturned>>
    /\ mu' = mu \ {"Start"}
    /\ UNCHANGED <<passthrough, starts, exiting, fatal, reqVars>>
    /\ UNCHANGED extVars

\* Shutdown, r.Lock().
ShutdownLock ==
    /\ Lock(mu)
    /\ mu' = mu \cup {"Shutdown"}
    /\ UNCHANGED <<passthrough, server, starts, exiting, fatal, shutdownReturned,
                   reqVars>>
    /\ UNCHANGED extVars

\* Shutdown, r.server.Close() to the return and the deferred Unlock: Close
\* closes the listener and every connection of the server and returns; the
\* goroutine serving the server is left to return from Serve.
ShutdownReturn ==
    /\ "Shutdown" \in mu
    /\ server' = "closed"
    /\ exiting' = IF server = "serving" THEN exiting + 1 ELSE exiting
    /\ connOpen' = [h \in HandlerIds |-> FALSE]
    /\ shutdownReturned' = TRUE
    /\ mu' = mu \ {"Shutdown"}
    /\ UNCHANGED <<passthrough, starts, fatal, pc, req, bodyReader, events,
                   messagesReceived, classified, resp, span, sink, decodeErr,
                   obsEnd>>
    /\ UNCHANGED extVars

\* The goroutine of Start: Serve returns http.ErrServerClosed once the server
\* is closed, the error is not nil and goes to host.ReportFatalError.
ServeClosed ==
    /\ exiting > 0
    /\ exiting' = exiting - 1
    /\ fatal' = fatal \cup {"http: Server closed"}
    /\ UNCHANGED <<passthrough, mu, server, starts, shutdownReturned, reqVars>>
    /\ UNCHANGED extVars

\* The goroutine of Start: the listener fails, Serve returns its error.
ServeFault ==
    /\ server = "serving"
    /\ server' = "failed"
    /\ fatal' = fatal \cup {"accept error"}
    /\ UNCHANGED <<passthrough, mu, starts, exiting, shutdownReturned, reqVars>>
    /\ UNCHANGED extVars

\* --------------------------------------------------------------- handleReq
\* The server accepts a connection, reads a request of the set rs from it and
\* calls handleReq in a goroutine of its own.
ServeRequest(h, rs) ==
    /\ server = "serving"
    /\ pc[h] = "idle"
    /\ pc' = [pc EXCEPT ![h] = "start"]
    /\ \E r \in rs : req' = [req EXCEPT ![h] = r]
    /\ connOpen' = [connOpen EXCEPT ![h] = TRUE]
    /\ UNCHANGED <<passthrough, lifeVars, bodyReader, events, messagesReceived,
                   classified, resp, span, sink, decodeErr, obsEnd>>
    /\ UNCHANGED extVars

\* handleReq has returned: the server finishes the response and the goroutine
\* of the request ends, with everything the request owned.
FinishRequest(h) ==
    /\ pc[h] = "done"
    /\ pc' = [pc EXCEPT ![h] = "idle"]
    /\ req' = [req EXCEPT ![h] = NoRequest]
    /\ connOpen' = [connOpen EXCEPT ![h] = FALSE]
    /\ bodyReader' = [bodyReader EXCEPT ![h] = [gz |-> FALSE, pos |-> 0]]
    /\ events' = [events EXCEPT ![h] = <<>>]
    /\ messagesReceived' = [messagesReceived EXCEPT ![h] = 0]
    /\ classified' = [classified EXCEPT ![h] = 0]
    /\ resp' = [resp EXCEPT ![h] = NewResponse]
    /\ span' = [span EXCEPT ![h] = NoSpan]
    /\ sink' = [sink EXCEPT ![h] = <<>>]
    /\ decodeErr' = [decodeErr EXCEPT ![h] = Nil]
    /\ obsEnd' = [obsEnd EXCEPT ![h] = <<>>]
    /\ UNCHANGED <<passthrough, lifeVars>>
    /\ UNCHANGED extVars

\* A failRequest that appends the error's text to the body it writes.
failRequest_LeakErr(h, s, httpStatusCode, jsonResponse, err) ==
    /\ resp' = [resp EXCEPT ![h] =
                   failResponse(@, httpStatusCode,
                                IF err # Nil THEN jsonResponse \o <<err>>
                                             ELSE jsonResponse)]
    /\ span' = [span EXCEPT ![h] = failSpan(s, httpStatusCode, jsonResponse, err)]
    /\ pc' = [pc EXCEPT ![h] = "done"]

\* failRequest on the span s: the response, the span, and handleReq returns.
failRequest(h, s, httpStatusCode, jsonResponse, err) ==
    /\ resp' = [resp EXCEPT ![h] = failResponse(@, httpStatusCode, jsonResponse)]
    /\ span' = [span EXCEPT ![h] = failSpan(s, httpStatusCode, jsonResponse, err)]
    /\ pc' = [pc EXCEPT ![h] = "done"]

\* handleReq up to the decode loop: the span of the receive operation, the
\* header checks, the gzip reader and the check of the declared length. A read
\* from a connection that Close has closed may fail.
handleReqValidate(h) ==
    /\ pc[h] = "start"
    /\ \E readOK \in (IF connOpen[h] THEN {TRUE} ELSE BOOLEAN) :
        LET r == req[h]
            v == validateHeaders(r)
            gz == r.encoding = gzipEncoding
            g == IF gz THEN gzipNewReader(r.wire, readOK)
                       ELSE [err |-> Nil, pos |-> 0]
        IN  IF v.reject
                THEN /\ failRequest(h, NewSpan, v.status, v.body, Nil)
                     /\ UNCHANGED bodyReader
            ELSE IF g.err # Nil
                THEN /\ failRequest(h, NewSpan, StatusBadRequest,
                                    errGzipReaderRespBody, g.err)
                     /\ bodyReader' = [bodyReader EXCEPT ![h] = [gz |-> gz, pos |-> g.pos]]
            ELSE IF ContentLength(r) = 0
                THEN /\ resp' = [resp EXCEPT ![h] = Write(@, okRespBody)]
                     /\ span' = [span EXCEPT ![h] = NewSpan]
                     /\ pc' = [pc EXCEPT ![h] = "done"]
                     /\ bodyReader' = [bodyReader EXCEPT ![h] = [gz |-> gz, pos |-> g.pos]]
            ELSE /\ span' = [span EXCEPT ![h] = NewSpan]
                 /\ pc' = [pc EXCEPT ![h] = "decode"]
                 /\ bodyReader' = [bodyReader EXCEPT ![h] = [gz |-> gz, pos |-> g.pos]]
                 /\ UNCHANGED resp
    /\ UNCHANGED <<passthrough, lifeVars, req, connOpen, events, messagesReceived,
                   classified, sink, decodeErr, obsEnd>>
    /\ UNCHANGED extVars

\* One turn of the decode loop: dec.More(), dec.Decode(&msg), msg.IsMetric()
\* and the append. A read from a closed connection may fail, and More is then
\* false.
handleReqDecode(h) ==
    /\ pc[h] = "decode"
    /\ \E readOK \in (IF connOpen[h] THEN {TRUE} ELSE BOOLEAN) :
        LET rd == bodyReader[h]
            pk == IF readOK THEN peek(req[h].wire, rd.gz, rd.pos)
                            ELSE [pos |-> rd.pos, next |-> [kind |-> "err", tok |-> ""]]
            d == Decode(pk.next.tok)
            t == loopTurn(pk)
        IN  CASE t = "exit" ->
                     /\ pc' = [pc EXCEPT ![h] = "assemble"]
                     /\ bodyReader' = [bodyReader EXCEPT ![h].pos = pk.pos]
                     /\ UNCHANGED <<events, messagesReceived, classified, resp, span>>
              [] t = "unmarshal" ->
                     /\ failRequest(h, span[h], StatusBadRequest,
                                    errUnmarshalBodyRespBody, d.err)
                     /\ bodyReader' = [bodyReader EXCEPT ![h].pos = pk.pos + 1]
                     /\ UNCHANGED <<events, messagesReceived, classified>>
              [] t = "metric" ->
                     /\ failRequest(h, span[h], StatusBadRequest,
                                    errUnsupportedMetricEvent, d.err)
                     /\ bodyReader' = [bodyReader EXCEPT ![h].pos = pk.pos + 1]
                     /\ classified' = [classified EXCEPT ![h] = @ + 1]
                     /\ UNCHANGED <<events, messagesReceived>>
              [] t = "append" ->
                     /\ messagesReceived' = [messagesReceived EXCEPT ![h] = @ + 1]
                     /\ events' = [events EXCEPT ![h] = Append(@, d.msg)]
                     /\ classified' = [classified EXCEPT ![h] = @ + 1]
                     /\ bodyReader' = [bodyReader EXCEPT ![h].pos = pk.pos + 1]
                     /\ UNCHANGED <<pc, resp, span>>
    /\ UNCHANGED <<passthrough, lifeVars, req, connOpen, sink, decodeErr, obsEnd>>
    /\ UNCHANGED extVars

\* An assembly whose events are those of every request being handled, as if
\* the slice were a field of the receiver.
handleReqAssemble_SharedEvents(h) ==
    /\ pc[h] = "assemble"
    /\ LET all == events[1] \o events[2]
           c == SplunkHecToLogData(all)
       IN  IF c.err # Nil
               THEN /\ failRequest(h, span[h], StatusBadRequest,
                                   errUnmarshalBodyRespBody, c.err)
                    /\ UNCHANGED sink
               ELSE /\ sink' = [sink EXCEPT ![h] =
                                   Append(@, newLogs(passthrough, req[h].token, c.logs))]
                    /\ pc' = [pc EXCEPT ![h] = "consume"]
                    /\ UNCHANGED <<resp, span>>
    /\ UNCHANGED <<passthrough, lifeVars, req, connOpen, bodyReader, events,
                   messagesReceived, classified, decodeErr, obsEnd>>
    /\ UNCHANGED extVars

\* An assembly that writes the 202 status line before it calls ConsumeLogs.
handleReqAssemble_EarlyHeader(h) ==
    /\ pc[h] = "assemble"
    /\ LET c == SplunkHecToLogData(events[h])
       IN  IF c.err # Nil
               THEN /\ failRequest(h, span[h], StatusBadRequest,
                                   errUnmarshalBodyRespBody, c.err)
                    /\ UNCHANGED sink
               ELSE /\ sink' = [sink EXCEPT ![h] =
                                   Append(@, newLogs(passthrough, req[h].token, c.logs))]
                    /\ pc' = [pc EXCEPT ![h] = "consume"]
                    /\ resp' = [resp EXCEPT ![h] = WriteHeader(@, StatusAccepted)]
                    /\ UNCHANGED span
    /\ UNCHANGED <<passthrough, lifeVars, req, connOpen, bodyReader, events,
                   messagesReceived, classified, decodeErr, obsEnd>>
    /\ UNCHANGED extVars

\* After the loop: SplunkHecToLogData, the batch with its one resource and one
\* scope, the token attribute, and the call of logConsumer.ConsumeLogs.
handleReqAssemble(h) ==
    /\ pc[h] = "assemble"
    /\ LET c == SplunkHecToLogData(events[h])
       IN  IF c.err # Nil
               THEN /\ failRequest(h, span[h], StatusBadRequest,
                                   errUnmarshalBodyRespBody, c.err)
                    /\ UNCHANGED sink
               ELSE /\ sink' = [sink EXCEPT ![h] =
                                   Append(@, newLogs(passthrough, req[h].token, c.logs))]
                    /\ pc' = [pc EXCEPT ![h] = "consume"]
                    /\ UNCHANGED <<resp, span>>
    /\ UNCHANGED <<passthrough, lifeVars, req, connOpen, bodyReader, events,
                   messagesReceived, classified, decodeErr, obsEnd>>
    /\ UNCHANGED extVars

\* ConsumeLogs returns nil or an error; EndMetricsReceiveOp, then the failure
\* response or 202 with the OK body.
handleReqRespond(h) ==
    /\ pc[h] = "consume"
    /\ \E e \in {Nil, "consumer error"} :
        /\ decodeErr' = [decodeErr EXCEPT ![h] = e]
        /\ obsEnd' = [obsEnd EXCEPT ![h] =
                         Append(@, <<messagesReceived[h], messagesReceived[h], e>>)]
        /\ IF e # Nil
               THEN failRequest(h, endReceiveOpSpan(span[h], e),
                                StatusInternalServerError, errNextConsumerRespBody, e)
               ELSE /\ resp' = [resp EXCEPT ![h] = acceptResponse(@)]
                    /\ span' = [span EXCEPT ![h] = endReceiveOpSpan(@, e)]
                    /\ pc' = [pc EXCEPT ![h] = "done"]
    /\ UNCHANGED <<passthrough, lifeVars, req, connOpen, bodyReader, events,
                   messagesReceived, classified, sink>>
    /\ UNCHANGED extVars

\* ---------------------------------------------------------- specifications
handleReq(h) ==
    \/ handleReqValidate(h)
    \/ handleReqDecode(h)
    \/ handleReqAssemble(h)
    \/ handleReqRespond(h)

\* One request at a time on a receiver that is started and not shut down.
Next ==
    \/ StartLock
    \/ StartReturn
    \/ \E h \in Serial : ServeRequest(h, Requests)
    \/ \E h \in Serial : handleReq(h)
    \/ \E h \in Serial : FinishRequest(h)

Spec == Init /\ [][Next]_vars

\* The requests of the specification with the whole lifecycle: well-formed
\* headers, a body of at most one element, plain or compressed.
LifeRequests ==
    {r \in Requests :
        /\ r.method = MethodPost /\ r.contentType = jsonContentType
        /\ r.token = "" /\ ~r.chunked
        /\ \/ r.encoding = "" /\ r.wire \in {<<>>, <<"logA">>, <<"metric">>, <<"bad">>}
           \/ r.encoding = gzipEncoding /\ r.wire \in {<<>>, Gzip(<<"logA">>)}}

\* Start, Shutdown, the goroutine serving the listener and the requests, all
\* interleaved.
NextLife ==
    \/ StartLock
    \/ StartReturn
    \/ ShutdownLock
    \/ ShutdownReturn
    \/ ServeClosed
    \/ ServeFault
    \/ \E h \in Serial : ServeRequest(h, LifeRequests)
    \/ \E h \in Serial : handleReq(h)
    \/ \E h \in Serial : FinishRequest(h)

SpecLife == Init /\ [][NextLife]_vars

\* The requests of the specification with two requests in flight: POST with
\* the JSON content type and a declared length, plain or gzip, bodies that
\* are accepted and bodies that are rejected.
ConcRequests ==
    {r \in Requests :
        /\ r.method = MethodPost /\ r.contentType = jsonContentType
        /\ r.token \in {"", "tok"} /\ ~r.chunked
        /\ \/ /\ r.encoding = ""
              /\ r.wire \in {<<>>, <<"logA">>, <<"logB">>, <<"logA", "logB">>,
                              <<"metric">>, <<"bad">>}
           \/ /\ r.encoding = gzipEncoding
              /\ r.wire \in {<<>>, <<"logA">>, Gzip(<<>>), Gzip(<<"logA">>),
                              Gzip(<<"logA", "logB">>)}}

\* Two request handlers interleaved on a started receiver.
NextConc ==
    \/ StartLock
    \/ StartReturn
    \/ \E h \in HandlerIds : ServeRequest(h, ConcRequests)
    \/ \E h \in HandlerIds : handleReq(h)
    \/ \E h \in HandlerIds : FinishRequest(h)

SpecConc == Init /\ [][NextConc]_vars

\* ------------------------------------------------- newValueFromRaw, calls
\* A call of newValueFromRaw with a value of the inputs.
Convert ==
    /\ \E iv \in RawInputs :
        /\ raw' = iv
        /\ result' = newValueFromRaw(iv)
    /\ UNCHANGED <<recvVars, wsVars, regVars>>

NextValue == Convert

SpecValue == Init /\ [][NextValue]_vars

\* ---------------------------------------------------- newProcessor, calls
\* A call of newProcessor, one at a time, with one of the config pointers.
NewProcessorCall ==
    /\ Len(calls) < MaxCalls
    /\ \E config \in Configs, obsOK \in BOOLEAN :
        LET r == newProcessor(processors, allocated, config, obsOK)
        IN  /\ processors' = r.reg
            /\ allocated' = r.n
            /\ calls' = Append(calls, [config |-> config, p |-> r.p, err |-> r.err])
    /\ UNCHANGED <<recvVars, valVars, wsVars>>

NextRegistry == NewProcessorCall

SpecRegistry == Init /\ [][NextRegistry]_vars

\* ------------------------------------------- websocket processor, actions
\* A run-time panic ends the process.
Running == panics = {}

\* sync.RWMutex: RLock returns when no goroutine is inside Lock, Lock when no
\* goroutine holds the lock for reading.
RLock(pending) == pending = {}
WLock(readers) == readers = {}

\* The channels of the map, as a range loop visits them.
Channels(conns) == {conns[u] : u \in URIs} \ {NoChan}

\* Start: the listener, the server and the goroutine that serves; an error of
\* ToListener is returned with w.server left nil.
wsStart ==
    /\ Running
    /\ wsServer = "nil"
    /\ \E bound \in BOOLEAN :
        IF bound
            THEN wsServer' = "serving" /\ wsServe' = "running"
            ELSE UNCHANGED <<wsServer, wsServe>>
    /\ UNCHANGED <<wsFatal, connections, closed, rlocked, wpending, hpc, hkey, bpc,
                   btodo, btarget, forwarded, sinkResult, returned, spc, stodo, panics>>
    /\ UNCHANGED <<recvVars, valVars, regVars>>

\* The goroutine of Start: Serve returns http.ErrServerClosed after Close,
\* which is not reported.
wsServeClosed ==
    /\ Running
    /\ wsServe = "running" /\ wsServer = "closed"
    /\ wsServe' = "exited"
    /\ UNCHANGED <<wsServer, wsFatal, connections, closed, rlocked, wpending, hpc,
                   hkey, bpc, btodo, btarget, forwarded, sinkResult, returned, spc, stodo, panics>>
    /\ UNCHANGED <<recvVars, valVars, regVars>>

\* The goroutine of Start: the listener fails, the error of Serve is reported.
wsServeFault ==
    /\ Running
    /\ wsServe = "running" /\ wsServer = "serving"
    /\ wsServe' = "exited"
    /\ wsServer' = "failed"
    /\ wsFatal' = wsFatal \cup {"accept error"}
    /\ UNCHANGED <<connections, closed, rlocked, wpending, hpc, hkey, bpc, btodo,
                   btarget, forwarded, sinkResult, returned, spc, stodo, panics>>
    /\ UNCHANGED <<recvVars, valVars, regVars>>

\* handleConn, up to the call of connLock.Lock: SetDeadline (the handler
\* returns on its error), the channel, the key.
handleConnOpen(c) ==
    /\ Running
    /\ wsServer = "serving"
    /\ hpc[c] = "none"
    /\ \E u \in URIs, deadlineSet \in BOOLEAN :
        IF deadlineSet
            THEN /\ hkey' = [hkey EXCEPT ![c] = u]
                 /\ hpc' = [hpc EXCEPT ![c] = "register"]
                 /\ wpending' = wpending \cup {c}
            ELSE /\ hpc' = [hpc EXCEPT ![c] = "exited"]
                 /\ UNCHANGED <<hkey, wpending>>
    /\ UNCHANGED <<wsServer, wsServe, wsFatal, connections, closed, rlocked, bpc,
                   btodo, btarget, forwarded, sinkResult, returned, spc, stodo, panics>>
    /\ UNCHANGED <<recvVars, valVars, regVars>>

\* handleConn: Lock returns, w.connections[key] = sendChan, Unlock.
handleConnRegister(c) ==
    /\ Running
    /\ hpc[c] = "register"
    /\ WLock(rlocked)
    /\ connections' = [connections EXCEPT ![hkey[c]] = c]
    /\ wpending' = wpending \ {c}
    /\ hpc' = [hpc EXCEPT ![c] = "loop"]
    /\ UNCHANGED <<wsServer, wsServe, wsFatal, closed, rlocked, hkey, bpc, btodo,
                   btarget, forwarded, sinkResult, returned, spc, stodo, panics>>
    /\ UNCHANGED <<recvVars, valVars, regVars>>

\* handleConn, msg := <-sendChan with a sender on the unbuffered channel: the
\* send of the broadcast goroutine and the receive happen together.
handleConnReceive(c) ==
    /\ Running
    /\ hpc[c] = "loop"
    /\ c \notin closed
    /\ \E b \in Bcasts :
        /\ bpc[b] = "send" /\ btarget[b] = c
        /\ bpc' = [bpc EXCEPT ![b] = "iter"]
        /\ btarget' = [btarget EXCEPT ![b] = NoChan]
    /\ hpc' = [hpc EXCEPT ![c] = "write"]
    /\ UNCHANGED <<wsServer, wsServe, wsFatal, connections, closed, rlocked,
                   wpending, hkey, btodo, forwarded, sinkResult, returned, spc, stodo, panics>>
    /\ UNCHANGED <<recvVars, valVars, regVars>>

\* handleConn, msg := <-sendChan on a closed channel: msg is nil and the loop
\* is left.
handleConnReceiveClosed(c) ==
    /\ Running
    /\ hpc[c] = "loop"
    /\ c \in closed
    /\ hpc' = [hpc EXCEPT ![c] = "leave"]
    /\ UNCHANGED <<wsServer, wsServe, wsFatal, connections, closed, rlocked,
                   wpending, hkey, bpc, btodo, btarget, forwarded, sinkResult, returned, spc, stodo,
                   panics>>
    /\ UNCHANGED <<recvVars, valVars, regVars>>

\* handleConn, conn.Write(msg): on an error the loop is left.
handleConnWrite(c) ==
    /\ Running
    /\ hpc[c] = "write"
    /\ \E written \in BOOLEAN :
        hpc' = [hpc EXCEPT ![c] = IF written THEN "loop" ELSE "leave"]
    /\ UNCHANGED <<wsServer, wsServe, wsFatal, connections, closed, rlocked,
                   wpending, hkey, bpc, btodo, btarget, forwarded, sinkResult, returned, spc, stodo,
                   panics>>
    /\ UNCHANGED <<recvVars, valVars, regVars>>

\* handleConn after the loop: the call of connLock.Lock.
handleConnLock(c) ==
    /\ Running
    /\ hpc[c] = "leave"
    /\ wpending' = wpending \cup {c}
    /\ hpc' = [hpc EXCEPT ![c] = "lockDel"]
    /\ UNCHANGED <<wsServer, wsServe, wsFatal, connections, closed, rlocked, hkey,
                   bpc, btodo, btarget, forwarded, sinkResult, returned, spc, stodo, panics>>
    /\ UNCHANGED <<recvVars, valVars, regVars>>

\* handleConn after the loop: Lock returns, delete(w.connections, key),
\* Unlock, and the handler returns.
handleConnDelete(c) ==
    /\ Running
    /\ hpc[c] = "lockDel"
    /\ WLock(rlocked)
    /\ connections' = [connections EXCEPT ![hkey[c]] = NoChan]
    /\ wpending' = wpending \ {c}
    /\ hpc' = [hpc EXCEPT ![c] = "exited"]
    /\ UNCHANGED <<wsServer, wsServe, wsFatal, closed, rlocked, hkey, bpc, btodo,
                   btarget, forwarded, sinkResult, returned, spc, stodo, panics>>
    /\ UNCHANGED <<recvVars, valVars, regVars>>

\* A Consume call that returns the error of the serialization when there is
\* one.
Consume_ReturnsMarshalError(b) ==
    /\ Running
    /\ bpc[b] = "idle"
    /\ \E marshalled \in BOOLEAN, res \in {Nil, "sink error"} :
        /\ bpc' = [bpc EXCEPT ![b] = IF marshalled THEN "start" ELSE "done"]
        /\ sinkResult' = [sinkResult EXCEPT ![b] = res]
        /\ returned' = [returned EXCEPT ![b] =
                           IF marshalled THEN res ELSE "marshal error"]
    /\ forwarded' = [forwarded EXCEPT ![b] = @ + 1]
    /\ UNCHANGED <<wsServer, wsServe, wsFatal, connections, closed, rlocked,
                   wpending, hpc, hkey, btodo, btarget, spc, stodo, panics>>
    /\ UNCHANGED <<recvVars, valVars, regVars>>

\* ConsumeMetrics, ConsumeLogs, ConsumeTraces: a goroutine is started that
\* marshals the data and, unless marshalling fails, calls sendToConnections;
\* the data is given to the next consumer, whose result, nil or an error, is
\* returned.
Consume(b) ==
    /\ Running
    /\ bpc[b] = "idle"
    /\ \E marshalled \in BOOLEAN, res \in {Nil, "sink error"} :
        /\ bpc' = [bpc EXCEPT ![b] = IF marshalled THEN "start" ELSE "done"]
        /\ sinkResult' = [sinkResult EXCEPT ![b] = res]
        /\ returned' = [returned EXCEPT ![b] = res]
    /\ forwarded' = [forwarded EXCEPT ![b] = @ + 1]
    /\ UNCHANGED <<wsServer, wsServe, wsFatal, connections, closed, rlocked,
                   wpending, hpc, hkey, btodo, btarget, spc, stodo, panics>>
    /\ UNCHANGED <<recvVars, valVars, regVars>>

\* sendToConnections: connLock.RLock() and the start of the range loop.
sendToConnectionsRLock(b) ==
    /\ Running
    /\ bpc[b] = "start"
    /\ RLock(wpending)
    /\ rlocked' = rlocked \cup {<<"bcast", b>>}
    /\ btodo' = [btodo EXCEPT ![b] = Channels(connections)]
    /\ bpc' = [bpc EXCEPT ![b] = "iter"]
    /\ UNCHANGED <<wsServer, wsServe, wsFatal, connections, closed, wpending, hpc,
                   hkey, btarget, forwarded, sinkResult, returned, spc, stodo, panics>>
    /\ UNCHANGED <<recvVars, valVars, regVars>>

\* sendToConnections: the next channel of the range loop, in any order, or
\* the end of the loop and the deferred RUnlock.
sendToConnectionsNext(b) ==
    /\ Running
    /\ bpc[b] = "iter"
    /\ IF btodo[b] = {}
           THEN /\ rlocked' = rlocked \ {<<"bcast", b>>}
                /\ bpc' = [bpc EXCEPT ![b] = "done"]
                /\ UNCHANGED <<btodo, btarget>>
           ELSE /\ \E c \in btodo[b] :
                     /\ btarget' = [btarget EXCEPT ![b] = c]
                     /\ btodo' = [btodo EXCEPT ![b] = @ \ {c}]
                /\ bpc' = [bpc EXCEPT ![b] = "send"]
                /\ UNCHANGED rlocked
    /\ UNCHANGED <<wsServer, wsServe, wsFatal, connections, closed, wpending, hpc,
                   hkey, forwarded, sinkResult, returned, spc, stodo, panics>>
    /\ UNCHANGED <<recvVars, valVars, regVars>>

\* sendToConnections, c <- payload on a closed channel: the send panics.
sendToConnectionsPanic(b) ==
    /\ Running
    /\ bpc[b] = "send"
    /\ btarget[b] \in closed
    /\ panics' = panics \cup {"send on closed channel"}
    /\ bpc' = [bpc EXCEPT ![b] = "panicked"]
    /\ rlocked' = rlocked \ {<<"bcast", b>>}
    /\ UNCHANGED <<wsServer, wsServe, wsFatal, connections, closed, wpending, hpc,
                   hkey, btodo, btarget, forwarded, sinkResult, returned, spc, stodo>>
    /\ UNCHANGED <<recvVars, valVars, regVars>>

\* Shutdown: nothing to do when w.server is nil; otherwise connLock.RLock()
\* and the start of the range loop.
wsShutdown(s) ==
    /\ Running
    /\ spc[s] = "idle"
    /\ IF wsServer = "nil"
           THEN /\ spc' = [spc EXCEPT ![s] = "returned"]
                /\ UNCHANGED <<rlocked, stodo>>
           ELSE /\ RLock(wpending)
                /\ rlocked' = rlocked \cup {<<"shutdown", s>>}
                /\ stodo' = [stodo EXCEPT ![s] = Channels(connections)]
                /\ spc' = [spc EXCEPT ![s] = "closing"]
    /\ UNCHANGED <<wsServer, wsServe, wsFatal, connections, closed, wpending, hpc,
                   hkey, bpc, btodo, btarget, forwarded, sinkResult, returned, panics>>
    /\ UNCHANGED <<recvVars, valVars, regVars>>

\* Shutdown, close(c) in the range loop: closing a closed channel panics.
wsShutdownClose(s) ==
    /\ Running
    /\ spc[s] = "closing"
    /\ \E c \in stodo[s] :
        IF c \in closed
            THEN /\ panics' = panics \cup {"close of closed channel"}
                 /\ spc' = [spc EXCEPT ![s] = "panicked"]
                 /\ rlocked' = rlocked \ {<<"shutdown", s>>}
                 /\ UNCHANGED <<closed, stodo>>
            ELSE /\ closed' = closed \cup {c}
                 /\ stodo' = [stodo EXCEPT ![s] = @ \ {c}]
                 /\ UNCHANGED <<panics, spc, rlocked>>
    /\ UNCHANGED <<wsServer, wsServe, wsFatal, connections, wpending, hpc, hkey,
                   bpc, btodo, btarget, forwarded, sinkResult, returned>>
    /\ UNCHANGED <<recvVars, valVars, regVars>>

\* Shutdown, after the loop: w.server.Close().
wsShutdownServerClose(s) ==
    /\ Running
    /\ spc[s] = "closing"
    /\ stodo[s] = {}
    /\ wsServer' = "closed"
    /\ spc' = [spc EXCEPT ![s] = "wait"]
    /\ UNCHANGED <<wsServe, wsFatal, connections, closed, rlocked, wpending, hpc,
                   hkey, bpc, btodo, btarget, forwarded, sinkResult, returned, stodo, panics>>
    /\ UNCHANGED <<recvVars, valVars, regVars>>

\* Shutdown: shutdownWG.Wait() returns when the goroutine of Start is done;
\* the return and the deferred RUnlock.
wsShutdownReturn(s) ==
    /\ Running
    /\ spc[s] = "wait"
    /\ wsServe # "running"
    /\ rlocked' = rlocked \ {<<"shutdown", s>>}
    /\ spc' = [spc EXCEPT ![s] = "returned"]
    /\ UNCHANGED <<wsServer, wsServe, wsFatal, connections, closed, wpending, hpc,
                   hkey, bpc, btodo, btarget, forwarded, sinkResult, returned, stodo, panics>>
    /\ UNCHANGED <<recvVars, valVars, regVars>>

handleConn(c) ==
    \/ handleConnOpen(c)
    \/ handleConnRegister(c)
    \/ handleConnReceive(c)
    \/ handleConnReceiveClosed(c)
    \/ handleConnWrite(c)
    \/ handleConnLock(c)
    \/ handleConnDelete(c)

sendToConnections(b) ==
    \/ sendToConnectionsRLock(b)
    \/ sendToConnectionsNext(b)
    \/ sendToConnectionsPanic(b)

\* The websocket processor: Start, the connections, the Consume calls with
\* their broadcasts and the Shutdown calls, all interleaved.
NextWS ==
    \/ wsStart
    \/ wsServeClosed
    \/ wsServeFault
    \/ \E c \in Conns : handleConn(c)
    \/ \E b \in Bcasts : Consume(b)
    \/ \E b \in Bcasts : sendToConnections(b)
    \/ \E s \in Shutters : wsShutdown(s)
    \/ \E s \in Shutters : wsShutdownClose(s)
    \/ \E s \in Shutters : wsShutdownServerClose(s)
    \/ \E s \in Shutters : wsShutdownReturn(s)

\* The processor reads nothing of the receiver: one configuration of the
\* receiver is enough.
InitWS == Init /\ ~passthrough

SpecWS == InitWS /\ [][NextWS]_vars

\* ------------------------------------------------------- the claims' terms
Done(h) == pc[h] = "done"

\* The request has the method, the content type and an encoding handleReq
\* takes.
ValidHeaders(r) ==
    /\ r.method = MethodPost
    /\ r.contentType = jsonContentType
    /\ r.encoding \in {"", gzipEncoding}

\* The body of a gzip request starts with a gzip header.
GzipOpens(r) ==
    r.encoding = gzipEncoding => Len(r.wire) > 0 /\ r.wire[1] = GZH

PassesValidation(r) == ValidHeaders(r) /\ GzipOpens(r)

Min(S) == CHOOSE x \in S : \A y \in S : x <= y

\* The elements of the body as the decoder is given them: the body itself, or
\* what lies between the gzip header and the end of the compressed data.
Elements(r) ==
    IF r.encoding = gzipEncoding
        THEN LET stops == {i \in 2..Len(r.wire) : r.wire[i] \in {GZH, GZT, GZX}}
                 last == IF stops = {} THEN Len(r.wire) ELSE Min(stops) - 1
             IN  SubSeq(r.wire, 2, last)
        ELSE r.wire

IsNotSpace(t) == t # "ws"
NonSpace(seq) == SelectSeq(seq, IsNotSpace)

\* The number of well-formed log events the body starts with.
LeadingLogCount(seq) ==
    LET ns == NonSpace(seq)
    IN  CHOOSE k \in 0..Len(ns) :
            /\ \A i \in 1..k : ns[i] \in LogTokens
            /\ k < Len(ns) => ns[k + 1] \notin LogTokens

\* The log events the body starts with, and the element that follows them.
LeadingLogs(seq) == SubSeq(NonSpace(seq), 1, LeadingLogCount(seq))
FirstOther(seq) ==
    IF LeadingLogCount(seq) < Len(NonSpace(seq))
        THEN NonSpace(seq)[LeadingLogCount(seq) + 1] ELSE "none"

\* An element that is a value and does not decode into an Event: malformed
\* JSON, or the bytes of a gzip stream read as JSON.
Undecodable(t) == t \in {"bad", GZH, GZT, GZX}

\* The log record of a well-formed log event.
LogRecordOf(tok) == [body |-> EventOf(tok).event, attributes |-> EventOf(tok).fields]

Rejected(h, status, body) ==
    resp[h].status = status /\ resp[h].bodies = <<body>>

\* ConsumeLogs was not called for the request.
NotConsumed(h) == sink[h] = <<>>

\* ----------------------------------------------------------------- claims
\* C1, as claimed: a request that passes the header checks and declares a body
\* of length zero is answered 200 "OK", with no event classified and
\* ConsumeLogs not called, whether its Content-Encoding is empty or gzip.
C1_ZeroLengthAnyEncoding ==
    \A h \in HandlerIds :
        Done(h) /\ ValidHeaders(req[h]) /\ ContentLength(req[h]) = 0
            => /\ Rejected(h, StatusOK, okRespBody)
               /\ classified[h] = 0
               /\ NotConsumed(h)

\* C1, amended: a request that passes the header checks and declares a body of
\* length zero has no event classified and ConsumeLogs not called; with an
\* empty Content-Encoding it is answered 200 "OK", with gzip it is answered 400
\* "Error on gzip body", the gzip reader being made before the length is
\* looked at.
C1_ZeroLength ==
    \A h \in HandlerIds :
        Done(h) /\ ValidHeaders(req[h]) /\ ContentLength(req[h]) = 0
            => /\ classified[h] = 0
               /\ NotConsumed(h)
               /\ req[h].encoding = "" => Rejected(h, StatusOK, okRespBody)
               /\ req[h].encoding = gzipEncoding
                    => Rejected(h, StatusBadRequest, errGzipReaderRespBody)

C1_Witness ==
    \E h \in HandlerIds :
        /\ Done(h) /\ ValidHeaders(req[h]) /\ ContentLength(req[h]) = 0
        /\ req[h].encoding = ""
        /\ Rejected(h, StatusOK, okRespBody)

\* C2, as claimed: a request that passes validation and whose body holds a
\* metric event at any position is answered 400 "Unsupported metric event" and
\* ConsumeLogs is not called.
C2_MetricAnywhere ==
    \A h \in HandlerIds :
        /\ Done(h) /\ PassesValidation(req[h])
        /\ \E i \in 1..Len(Elements(req[h])) : Elements(req[h])[i] = "metric"
        => /\ Rejected(h, StatusBadRequest, errUnsupportedMetricEvent)
           /\ NotConsumed(h)

\* C2, amended: a request that passes validation and whose body holds a metric
\* event preceded only by well-formed log events (white space aside) is
\* answered 400 "Unsupported metric event" and ConsumeLogs is not called; when
\* a value that does not decode comes before the metric event, the answer is
\* 400 "Failed to unmarshal message body", and ConsumeLogs is not called.
C2_FirstMetricRejects ==
    \A h \in HandlerIds :
        Done(h) /\ PassesValidation(req[h])
            => /\ FirstOther(Elements(req[h])) = "metric"
                    => /\ Rejected(h, StatusBadRequest, errUnsupportedMetricEvent)
                       /\ NotConsumed(h)
               /\ ((\E i \in 1..Len(Elements(req[h])) : Elements(req[h])[i] = "metric")
                        /\ Undecodable(FirstOther(Elements(req[h]))))
                    => /\ Rejected(h, StatusBadRequest, errUnmarshalBodyRespBody)
                       /\ NotConsumed(h)

C2_Witness ==
    \E h \in HandlerIds :
        /\ Done(h) /\ PassesValidation(req[h])
        /\ FirstOther(Elements(req[h])) = "metric"
        /\ messagesReceived[h] > 0
        /\ Rejected(h, StatusBadRequest, errUnsupportedMetricEvent)

\* C3, as claimed: in a request that passes validation, the first element of
\* the body that is no well-formed Event Record aborts the request with 400
\* "Failed to unmarshal message body", whatever number of log events precedes
\* it, and ConsumeLogs is not called.
C3_FirstMalformedRejects ==
    \A h \in HandlerIds :
        /\ Done(h) /\ PassesValidation(req[h])
        /\ FirstOther(Elements(req[h])) \notin {"none", "metric"}
        => /\ Rejected(h, StatusBadRequest, errUnmarshalBodyRespBody)
           /\ NotConsumed(h)

\* C4: whenever ConsumeLogs is called, its batch has one resource and one
\* scope, the log records of the scope are those of the log events the body
\* starts with, in the order of the body, and the count given to
\* EndMetricsReceiveOp is the number of log records of the batch.
C4_BatchMatchesBody ==
    \A h \in HandlerIds :
        sink[h] # <<>>
            => /\ Len(sink[h]) = 1
               /\ Len(sink[h][1]) = 1
               /\ Len(sink[h][1][1].ills) = 1
               /\ LET logs == sink[h][1][1].ills[1].logs
                      want == LeadingLogs(Elements(req[h]))
                  IN  /\ Len(logs) = Len(want)
                      /\ \A i \in 1..Len(want) : logs[i] = LogRecordOf(want[i])
                      /\ obsEnd[h] # <<>>
                            => /\ obsEnd[h][1][1] = Len(logs)
                               /\ obsEnd[h][1][2] = Len(logs)

C4_Witness ==
    \E h \in HandlerIds :
        /\ Done(h) /\ sink[h] # <<>> /\ obsEnd[h] # <<>>
        /\ Len(sink[h][1][1].ills[1].logs) = 2
        /\ sink[h][1][1].ills[1].logs[1] # sink[h][1][1].ills[1].logs[2]

\* C5: when ConsumeLogs returns an error the response is 500 "Internal Server
\* Error" and the status code of the span is Internal; a request rejected
\* with any other status has the span status code InvalidArgument.
C5_SpanStatusOfFailure ==
    \A h \in HandlerIds :
        Done(h)
            => /\ decodeErr[h] # Nil
                    => /\ Rejected(h, StatusInternalServerError, errNextConsumerRespBody)
                       /\ span[h].code = "Internal"
               /\ resp[h].status \notin {StatusOK, StatusAccepted, StatusInternalServerError}
                    => span[h].code = "InvalidArgument"
               /\ resp[h].status = StatusInternalServerError => decodeErr[h] # Nil

C5_Witness ==
    \E h \in HandlerIds :
        /\ Done(h) /\ decodeErr[h] # Nil
        /\ resp[h].status = StatusInternalServerError
        /\ span[h].code = "Internal"

\* C6, as claimed: every request ends with one response write and with its
\* span ended once.
C6_OneWriteOneSpanEnd ==
    \A h \in HandlerIds :
        Done(h) => Len(resp[h].bodies) = 1 /\ span[h].ends = 1

\* C7, as claimed: once Shutdown has returned no request handler is still
\* running.
C7_ShutdownWaitsForHandlers ==
    shutdownReturned => \A h \in HandlerIds : pc[h] \in {"idle", "done"}

\* C8, as claimed: a request with Content-Type text/plain is answered 415
\* before any of its body is read and without a call of ConsumeLogs.
C8_TextPlainIs415 ==
    \A h \in HandlerIds :
        Done(h) /\ req[h].contentType = "text/plain"
            => /\ resp[h].status = StatusUnsupportedMediaType
               /\ bodyReader[h].pos = 0
               /\ NotConsumed(h)

\* C8, amended: a POST request with Content-Type text/plain is answered 415
\* with the invalid-content-type body before any of its body is read and
\* without a call of ConsumeLogs; with another method it is answered 400, the
\* method being checked first, and again nothing of the body is read.
C8_PostTextPlainIs415 ==
    \A h \in HandlerIds :
        Done(h) /\ req[h].contentType = "text/plain"
            => /\ bodyReader[h].pos = 0
               /\ NotConsumed(h)
               /\ IF req[h].method = MethodPost
                      THEN Rejected(h, StatusUnsupportedMediaType, invalidContentRespBody)
                      ELSE Rejected(h, StatusBadRequest, invalidMethodRespBody)

C8_Witness ==
    \E h \in HandlerIds :
        /\ Done(h) /\ req[h].contentType = "text/plain"
        /\ req[h].method = MethodPost
        /\ Len(req[h].wire) > 0
        /\ Rejected(h, StatusUnsupportedMediaType, invalidContentRespBody)

\* C9: the rejections come in the order method, Content-Type,
\* Content-Encoding, gzip reader: a method other than POST gives 400 with the
\* invalid-method body whatever the headers, else a Content-Type other than
\* application/json gives 415 with the invalid-content-type body, else a
\* Content-Encoding other than empty and gzip gives 415 with the
\* invalid-encoding body, else a gzip body that does not start with a gzip
\* header gives 400 "Error on gzip body"; ConsumeLogs is called in none of
\* these.
C9_ValidationOrder ==
    \A h \in HandlerIds :
        Done(h)
            => LET r == req[h]
               IN  /\ r.method # MethodPost
                        => Rejected(h, StatusBadRequest, invalidMethodRespBody)
                   /\ r.method = MethodPost /\ r.contentType # jsonContentType
                        => Rejected(h, StatusUnsupportedMediaType, invalidContentRespBody)
                   /\ (r.method = MethodPost /\ r.contentType = jsonContentType
                            /\ r.encoding \notin {"", gzipEncoding})
                        => Rejected(h, StatusUnsupportedMediaType, invalidEncodingRespBody)
                   /\ ValidHeaders(r) /\ ~GzipOpens(r)
                        => Rejected(h, StatusBadRequest, errGzipReaderRespBody)
                   /\ ~PassesValidation(r) => NotConsumed(h) /\ classified[h] = 0

C9_Witness ==
    \E h \in HandlerIds :
        /\ Done(h)
        /\ req[h].method # MethodPost
        /\ req[h].contentType # jsonContentType
        /\ req[h].encoding \notin {"", gzipEncoding}
        /\ Rejected(h, StatusBadRequest, invalidMethodRespBody)

\* The request was accepted: its response is the OK body.
Accepted(h) == resp[h].bodies = <<okRespBody>>
DeliveredCount(h) ==
    IF sink[h] = <<>> THEN 0 ELSE Len(sink[h][1][1].ills[1].logs)

\* C10, as claimed: an accepted request with records is answered 202 "OK", an
\* accepted request with no record is answered 200 "OK", and a 202 response
\* means that at least one log record was given to ConsumeLogs.
C10_StatusByRecordCount ==
    \A h \in HandlerIds :
        Done(h) /\ Accepted(h)
            => /\ messagesReceived[h] > 0 => resp[h].status = StatusAccepted
               /\ messagesReceived[h] = 0 => resp[h].status = StatusOK
               /\ resp[h].status = StatusAccepted => DeliveredCount(h) >= 1

\* C10, amended: an accepted request is answered 200 "OK" when its declared
\* body length is zero, and ConsumeLogs is then not called; it is answered 202
\* "OK" otherwise, after one call of ConsumeLogs that returned no error, with
\* a batch of as many log records as events were decoded, which may be none.
\* An accepted request with records is answered 202.
C10_StatusByDeclaredLength ==
    \A h \in HandlerIds :
        Done(h) /\ Accepted(h)
            => /\ resp[h].status \in {StatusOK, StatusAccepted}
               /\ resp[h].status = StatusOK <=> ContentLength(req[h]) = 0
               /\ resp[h].status = StatusOK => NotConsumed(h)
               /\ resp[h].status = StatusAccepted
                    => /\ Len(sink[h]) = 1
                       /\ decodeErr[h] = Nil
                       /\ DeliveredCount(h) = messagesReceived[h]
               /\ messagesReceived[h] > 0 => resp[h].status = StatusAccepted

C10_Witness ==
    \E h \in HandlerIds :
        /\ Done(h) /\ Accepted(h)
        /\ resp[h].status = StatusAccepted
        /\ DeliveredCount(h) = 0
        /\ Len(sink[h]) = 1

\* C11: ConsumeLogs is called at most once for a request, and exactly once,
\* without a second try, when the call failed; while the call has not
\* returned nothing of the response is written, neither status nor body, and
\* a response is written only by the step that ends the request.
C11_ConsumeOnceBeforeResponse ==
    \A h \in HandlerIds :
        /\ Len(sink[h]) <= 1
        /\ pc[h] = "consume" => Len(sink[h]) = 1 /\ resp[h] = NewResponse
        /\ Done(h) /\ decodeErr[h] # Nil => Len(sink[h]) = 1
        /\ resp[h] # NewResponse => Done(h)

C11_Witness ==
    \E h \in HandlerIds :
        /\ Done(h) /\ Len(sink[h]) = 1 /\ decodeErr[h] # Nil
        /\ Rejected(h, StatusInternalServerError, errNextConsumerRespBody)

\* C12: the batch given to ConsumeLogs has a resource attribute under the key
\* com.splunk.hec.access_token exactly when token passthrough is enabled and
\* the request has a non-empty token header, and the value of the attribute
\* is then the value of the header.
C12_TokenPassthrough ==
    \A h \in HandlerIds : \A i \in 1..Len(sink[h]) : \A j \in 1..Len(sink[h][i]) :
        LET attrs == sink[h][i][j].resource.attributes
            keyed == {a \in attrs : a[1] = "com.splunk.hec.access_token"}
        IN  /\ keyed # {} <=> (passthrough /\ req[h].token # "")
            /\ \A a \in keyed : a[2] = req[h].token

C12_Witness ==
    \E h \in HandlerIds :
        /\ passthrough /\ req[h].token = "tok2" /\ Len(sink[h]) = 1
        /\ <<"com.splunk.hec.access_token", "tok2">>
               \in sink[h][1][1].resource.attributes

\* C13: Start and Shutdown are never both between Lock and Unlock; no step of
\* a request handler takes or releases the mutex; and a handler in flight has
\* a step it can take whoever holds the mutex.
C13_LifecycleLockOnly ==
    /\ [](~({"Start", "Shutdown"} \subseteq mu))
    /\ [](\A h \in HandlerIds :
            pc[h] \in {"start", "decode", "assemble", "consume"} /\ mu # {}
                => ENABLED handleReq(h))
    /\ [][(\E h \in HandlerIds : pc'[h] # pc[h]) => mu' = mu]_vars

C13_Witness ==
    \E h \in HandlerIds :
        /\ mu = {"Shutdown"} /\ pc[h] = "consume" /\ Len(sink[h]) = 1

\* The log records of the batches ConsumeLogs was given for the request.
DeliveredRecords(h) ==
    {sink[h][i][j].ills[k].logs[n] :
        <<i, j, k, n>> \in {q \in (1..1) \X (1..1) \X (1..2) \X (1..(MaxRecords + 2)) :
            /\ q[1] <= Len(sink[h]) /\ q[2] <= Len(sink[h][q[1]])
            /\ q[3] <= Len(sink[h][q[1]][q[2]].ills)
            /\ q[4] <= Len(sink[h][q[1]][q[2]].ills[q[3]].logs)}}

\* C14: with two requests handled at once and interleaved in any way, every
\* record of the batch delivered for a request is the record of a log event
\* of that request's own body, the batch has no more records than the body
\* has log events, and two requests that are equal and whose ConsumeLogs calls
\* returned the same get the same response and the same batch.
C14_RequestsIsolated ==
    \A h \in HandlerIds :
        LET own == NonSpace(Elements(req[h]))
            ownLogs == {i \in 1..Len(own) : own[i] \in LogTokens}
        IN  /\ sink[h] # <<>>
                => /\ DeliveredRecords(h) \subseteq {LogRecordOf(own[i]) : i \in ownLogs}
                   /\ Len(sink[h][1][1].ills[1].logs) <= Cardinality(ownLogs)
            /\ \A g \in HandlerIds :
                   Done(h) /\ Done(g) /\ req[h] = req[g] /\ decodeErr[h] = decodeErr[g]
                       => resp[h] = resp[g] /\ sink[h] = sink[g]

C14_Witness ==
    /\ Done(1) /\ pc[2] = "consume"
    /\ req[1].wire = <<"logA">> /\ req[2].wire = <<"logB">>
    /\ sink[1] # <<>> /\ sink[2] # <<>> /\ sink[1] # sink[2]

\* Request g is request p with its body, N log events, sent as gzip.
GzipTwin(g, p) ==
    /\ req[g] # NoRequest /\ req[p] # NoRequest
    /\ req[p].encoding = "" /\ req[g].encoding = gzipEncoding
    /\ \A i \in 1..Len(req[p].wire) : req[p].wire[i] \in LogTokens
    /\ req[g].wire = Gzip(req[p].wire)
    /\ req[g].method = req[p].method /\ req[g].contentType = req[p].contentType
    /\ req[g].token = req[p].token /\ req[g].chunked = req[p].chunked

\* C15, as claimed: a gzip request whose body decompresses to N log events
\* and the request with the same N events uncompressed deliver the same batch
\* and get the same response, for every N and for N = 0 too.
C15_GzipSameAsPlainAnyN ==
    \A g, p \in HandlerIds :
        Done(g) /\ Done(p) /\ GzipTwin(g, p) /\ decodeErr[g] = decodeErr[p]
            => sink[g] = sink[p] /\ resp[g] = resp[p]

\* C15, amended: the two requests deliver the same batch and get the same
\* response for every N >= 1; for N = 0 the gzip request, whose length is not
\* zero, has ConsumeLogs called with an empty batch and is answered 202 or
\* 500, and the uncompressed request of declared length zero is answered 200
\* with ConsumeLogs not called.
C15_GzipSameAsPlain ==
    \A g, p \in HandlerIds :
        Done(g) /\ Done(p) /\ GzipTwin(g, p)
            => /\ Len(req[p].wire) >= 1 /\ decodeErr[g] = decodeErr[p]
                    => sink[g] = sink[p] /\ resp[g] = resp[p]
               /\ Len(req[p].wire) = 0 /\ ContentLength(req[p]) = 0
                    => /\ Len(sink[g]) = 1 /\ sink[g][1][1].ills[1].logs = <<>>
                       /\ resp[g].status \in {StatusAccepted, StatusInternalServerError}
                       /\ Rejected(p, StatusOK, okRespBody) /\ NotConsumed(p)

C15_Witness ==
    \E g, p \in HandlerIds :
        /\ Done(g) /\ Done(p) /\ GzipTwin(g, p) /\ Len(req[p].wire) = 2
        /\ Rejected(g, StatusAccepted, okRespBody)
        /\ Rejected(p, StatusAccepted, okRespBody)
        /\ Len(sink[g][1][1].ills[1].logs) = 2

\* The class of a rejection, from the request and the result of ConsumeLogs:
\* the check of handleReq that fails first.
RejectionClass(h) ==
    LET r == req[h]
        other == FirstOther(Elements(r))
    IN  IF r.method # MethodPost THEN "method"
        ELSE IF r.contentType # jsonContentType THEN "contentType"
        ELSE IF r.encoding \notin {"", gzipEncoding} THEN "encoding"
        ELSE IF ~GzipOpens(r) THEN "gzip"
        ELSE IF ContentLength(r) = 0 THEN "none"
        ELSE IF other = "metric" THEN "metric"
        ELSE IF Undecodable(other) THEN "unmarshal"
        ELSE IF decodeErr[h] # Nil THEN "consumer"
        ELSE "none"

\* The (status, JSON body) pairs of the rejections.
FixedResponses ==
    {<<StatusBadRequest, invalidMethodRespBody>>,
     <<StatusUnsupportedMediaType, invalidContentRespBody>>,
     <<StatusUnsupportedMediaType, invalidEncodingRespBody>>,
     <<StatusBadRequest, errGzipReaderRespBody>>,
     <<StatusBadRequest, errUnmarshalBodyRespBody>>,
     <<StatusBadRequest, errUnsupportedMetricEvent>>,
     <<StatusInternalServerError, errNextConsumerRespBody>>}

\* C16: the response of a rejected request is one of the fixed (status, body)
\* pairs; two requests rejected in the same class get the same response
\* whatever the texts of their errors; and the text of the error is in no
\* part of the body, it is the status message of the span only.
C16_RejectionByClassOnly ==
    \A h \in HandlerIds :
        Done(h) /\ resp[h].status \notin {StatusOK, StatusAccepted}
            => /\ Len(resp[h].bodies) = 1
               /\ <<resp[h].status, resp[h].bodies[1]>> \in FixedResponses
               /\ RejectionClass(h) # "none"
               /\ \A g \in HandlerIds :
                      Done(g) /\ RejectionClass(g) = RejectionClass(h)
                          => resp[g] = resp[h]
               /\ span[h].message # ""
                    => \A i \in 1..Len(resp[h].bodies) :
                         \A k \in 1..Len(resp[h].bodies[i]) :
                            resp[h].bodies[i][k] # span[h].message

C16_Witness ==
    /\ Done(1) /\ Done(2)
    /\ RejectionClass(1) = "gzip" /\ RejectionClass(2) = "gzip"
    /\ span[1].message = "EOF" /\ span[2].message = "gzip: invalid header"
    /\ resp[1] = resp[2]
    /\ Rejected(1, StatusBadRequest, errGzipReaderRespBody)

\* C18, as claimed: host.ReportFatalError is called only for a fault of the
\* listener; when Start succeeded and Shutdown was called with no such fault,
\* no fatal error is reported.
C18_FatalOnlyOnListenerFault ==
    \A e \in fatal : e = "accept error"

\* A value of the supported set: of a scalar type, or a sequence or a map of
\* such values.
RECURSIVE InSupportedSet(_)
InSupportedSet(iv) ==
    \/ iv[1] \in {"nil", "string", "bool", "[]byte", "float32", "float64",
                     "int", "int8", "int16", "int32", "int64",
                     "uint", "uint8", "uint16", "uint32", "uint64"}
    \/ /\ iv[1] \in {"[]interface{}", "map[string]interface{}"}
       /\ \A k \in DOMAIN iv[2] : InSupportedSet(iv[2][k])

ValueKinds ==
    {"Empty", "Str", "Bool", "Bytes", "Map", "Slice"}
        \cup {"Int:" \o t : t \in SignedTypes} \cup {"Uint:" \o t : t \in UnsignedTypes}
        \cup {"Double:" \o t : t \in FloatTypes}

\* C17: newValueFromRaw returns no error and a Value for every input of the
\* supported set, and for every other input an error and the empty Value,
\* with nothing of the input in it.
C17_TotalOnSupportedSet ==
    raw # NoRaw
        => /\ InSupportedSet(raw)
                => result.err = Nil /\ result.v[1] \in ValueKinds
           /\ ~InSupportedSet(raw)
                => result.err # Nil /\ result.v = EmptyValue

C17_Witness ==
    /\ raw[1] = "map[string]interface{}"
    /\ DOMAIN raw[2] = {"foo", "baz"}
    /\ raw[2]["foo"][1] = "string" /\ raw[2]["baz"][1] = "*Config"
    /\ result.err # Nil /\ result.v = EmptyValue

\* C19, as claimed: no goroutine sends on a closed channel and none closes a
\* closed channel, so no send and no close panics.
C19_NoUseOfClosedChannel == panics = {}

\* Broadcast goroutine b is on a channel send inside the read lock and the
\* handler of that channel, having left its receive loop, waits inside Lock;
\* no channel is closed and no Shutdown is in its closing loop, so that no
\* close can end the send.
LockedSendDeadlock(b, c) ==
    /\ Running
    /\ bpc[b] = "send" /\ btarget[b] = c /\ <<"bcast", b>> \in rlocked
    /\ hpc[c] = "lockDel" /\ c \in wpending
    /\ closed = {}
    /\ \A s \in Shutters : spc[s] # "closing"

\* C20, as claimed (the state it excludes): no broadcast goroutine is blocked
\* for ever on a channel send inside the read lock while a handler is blocked
\* for ever inside Lock; every handler that leaves its loop removes its entry
\* and every sendToConnections call returns.
C20_NoLockedSendDeadlock ==
    \A b \in Bcasts, c \in Conns : ~LockedSendDeadlock(b, c)

\* The state C20 excludes lasts for ever once it is reached: no step ends it.
C20_DeadlockIsPermanent ==
    [][\A b \in Bcasts, c \in Conns :
          LockedSendDeadlock(b, c) => LockedSendDeadlock(b, c)']_vars

\* C21, as claimed: every handler inside its receive loop has its own channel
\* in the map under its key, two handlers of one request URI included; a
\* handler that exits therefore removes no registration but its own.
C21_LoopingHandlerRegistered ==
    \A c \in Conns :
        hpc[c] \in {"loop", "write"} => connections[hkey[c]] = c

\* C22: a Consume call gives the data to the next consumer once and returns
\* what the next consumer returned; it has returned while its broadcast has
\* not started, is on a send no connection receives, has ended or has
\* panicked, and whether the serialization failed or not.
C22_ForwardOnceReturnSinkResult ==
    \A b \in Bcasts :
        /\ forwarded[b] <= 1
        /\ bpc[b] = "idle" <=> forwarded[b] = 0
        /\ bpc[b] = "idle" <=> returned[b] = "none"
        /\ bpc[b] # "idle"
              => returned[b] \in {Nil, "sink error"} /\ returned[b] = sinkResult[b]

C22_Witness ==
    \E b \in Bcasts, c \in Conns :
        /\ LockedSendDeadlock(b, c)
        /\ forwarded[b] = 1 /\ returned[b] = "sink error"
        /\ \E d \in Bcasts : bpc[d] = "done" /\ returned[d] = Nil

\* C23: of the newProcessor calls made so far, a call that follows a
\* successful call with the same config pointer succeeds and returns the same
\* processor; successful calls with different config pointers return
\* different processors; a config pointer is in the registry exactly when a
\* call with it succeeded; and a call that fails returns no processor and
\* leaves the registry as it was.
C23_NewProcessorIdempotent ==
    /\ [](\A i, j \in 1..Len(calls) :
            /\ i < j /\ calls[i].config = calls[j].config /\ calls[i].err = Nil
                 => calls[j].err = Nil /\ calls[j].p = calls[i].p
            /\ calls[i].err = Nil /\ calls[j].err = Nil
                  /\ calls[i].config # calls[j].config
                 => calls[i].p # calls[j].p)
    /\ [](\A c \in Configs :
            processors[c] # NoProc
                <=> \E i \in 1..Len(calls) : calls[i].config = c /\ calls[i].err = Nil)
    /\ [][Len(calls') = Len(calls) + 1 /\ calls'[Len(calls')].err # Nil
              => processors' = processors /\ calls'[Len(calls')].p = NoProc]_vars

C23_Witness ==
    /\ Len(calls) = 4
    /\ calls[1].config = "cfgA" /\ calls[1].err # Nil
    /\ calls[2].config = "cfgA" /\ calls[2].err = Nil
    /\ calls[3].config = "cfgB" /\ calls[3].err = Nil /\ calls[3].p # calls[2].p
    /\ calls[4].config = "cfgA" /\ calls[4].err = Nil /\ calls[4].p = calls[2].p

====
